---- MODULE Spec2Model ----
(***************************************************************************)
(* Model of opened_app.py: calculate_statistics (the per-season gathering  *)
(* loop, the descending sort, the all-years and last-5-years averages and  *)
(* coefficients of variation) and get_variability_category.                *)
(*                                                                         *)
(* Numbers.  Cycle counts and coordinates are integers.  A mean is an      *)
(* exact rational [num, den] in lowest terms.  A value that the code       *)
(* obtains through a square root (a distance, np.std, a COV) is the exact  *)
(* non-negative real sqrt(n/d), written [n, d] in lowest terms; [0, 0] is  *)
(* the not-a-number that numpy yields for a division by a zero mean.       *)
(* Floating-point rounding is not modelled.                                *)
(*                                                                         *)
(* Strings are sequences of one-character strings, so that strip() and     *)
(* upper() are computed and not assumed.                                   *)
(***************************************************************************)
EXTENDS Integers, Sequences, FiniteSets

VARIABLES
    location_data,      \* the location_data argument (a dict)
    available_seasons,  \* the available_seasons argument (a list)
    provider,           \* what load_freeze_thaw_data_by_season gives per season
    pc,                 \* position in calculate_statistics
    i,                  \* index of the season the for loop is at
    location_stats,     \* the list gathered by the loop
    result,             \* the value returned
    st_error,           \* whether st.error was called (line 136)
    cov,                \* argument of get_variability_category
    category,           \* what get_variability_category returned
    search_data,        \* main: the records of the selected season
    state,              \* main: the state picked in the selectbox
    coordinates,        \* main: the latitude and longitude entered
    state_data          \* main: the candidates given to find_nearest_location

\* the variables of main's search
search == <<search_data, state, coordinates, state_data>>

vars == <<location_data, available_seasons, provider, pc, i, location_stats,
          result, st_error, cov, category, search>>

-----------------------------------------------------------------------------
(* Bounds of the model *)

MaxSeasons == 3
MaxWindowSeasons == 6
MaxRows == 2
MaxCovTenths == 450
MaxSearchRows == 2

-----------------------------------------------------------------------------
(* Arithmetic *)

Abs(x) == IF x < 0 THEN -x ELSE x

RECURSIVE GCD(_, _)
GCD(a, b) == IF b = 0 THEN a ELSE GCD(b, a % b)

\* the rational n/d (d > 0) in lowest terms
Rat(n, d) ==
    LET g == GCD(Abs(n), d)
    IN  [num |-> n \div g, den |-> d \div g]

\* the real sqrt(n/d) (n >= 0, d > 0) in lowest terms
Root(n, d) ==
    LET g == GCD(n, d)
    IN  [n |-> n \div g, d |-> d \div g]

NaN == [n |-> 0, d |-> 0]
Zero == Root(0, 1)

RootLess(a, b) == a.n * b.d < b.n * a.d

\* x ** 0.5
Sqrt(x) == Root(x, 1)

RECURSIVE Sum(_)
Sum(xs) == IF xs = <<>> THEN 0 ELSE Head(xs) + Sum(Tail(xs))

RECURSIVE SumSq(_)
SumSq(xs) == IF xs = <<>> THEN 0 ELSE Head(xs) * Head(xs) + SumSq(Tail(xs))

\* np.mean of a non-empty array
NpMean(xs) == Rat(Sum(xs), Len(xs))

\* faulty variant: the sample standard deviation, ddof = 1
NpStdSample(xs) ==
    LET n == Len(xs)
    IN  IF n < 2 THEN NaN
        ELSE Root(n * SumSq(xs) - Sum(xs) * Sum(xs), n * (n - 1))

\* np.std of a non-empty array: sqrt(mean(x^2) - mean(x)^2), ddof = 0
NpStd(xs) ==
    LET n == Len(xs)
    IN  Root(n * SumSq(xs) - Sum(xs) * Sum(xs), n * n)

\* r / q for a rational q >= 0; numpy gives inf or nan, not an exception,
\* for q = 0
RootOver(r, q) ==
    IF q.num = 0 \/ r = NaN THEN NaN
    ELSE Root(r.n * q.den * q.den, r.d * q.num * q.num)

\* r * k for an integer k >= 0
RootTimes(r, k) == IF r = NaN THEN NaN ELSE Root(r.n * k * k, r.d)

-----------------------------------------------------------------------------
(* Strings *)

UpperChar(c) ==
    CASE c = "a" -> "A"
      [] c = "b" -> "B"
      [] c = "c" -> "C"
      [] c = "o" -> "O"
      [] c = "w" -> "W"
      [] c = "y" -> "Y"
      [] c = "k" -> "K"
      [] c = "n" -> "N"
      [] c = "r" -> "R"
      [] c = "s" -> "S"
      [] OTHER -> c

Upper(s) == [k \in 1..Len(s) |-> UpperChar(s[k])]

RECURSIVE LStrip(_)
LStrip(s) == IF s # <<>> /\ Head(s) = " " THEN LStrip(Tail(s)) ELSE s

RECURSIVE RStrip(_)
RStrip(s) ==
    IF s # <<>> /\ s[Len(s)] = " " THEN RStrip(SubSeq(s, 1, Len(s) - 1)) ELSE s

Strip(s) == RStrip(LStrip(s))

-----------------------------------------------------------------------------
(* calculate_statistics: one iteration of the loop over the seasons *)

None == [none |-> TRUE]
NotReturned == [pending |-> TRUE]

LocationKeys == {"State", "County", "Latitude", "Longitude"}

\* lines 49-50 read the four keys of location_data before the loop
WellFormed(loc) == LocationKeys \subseteq DOMAIN loc

\* faulty variant: the keys compared as they are spelled
ExactMatchAsSpelled(rows, loc) ==
    SelectSeq(rows, LAMBDA r :
        r.State = loc.State /\ r.County = loc.County)

\* lines 59-62: the rows whose stripped, upper-cased State and County equal
\* the target's
ExactMatch(rows, loc) ==
    SelectSeq(rows, LAMBDA r :
        /\ Upper(Strip(r.State)) = Upper(Strip(loc.State))
        /\ Upper(Strip(r.County)) = Upper(Strip(loc.County)))

\* lines 69-71
Distance(row, loc) ==
    LET lat_diff == Abs(row.Latitude - loc.Latitude)
        lon_diff == Abs(row.Longitude - loc.Longitude)
    IN  Sqrt(lat_diff * lat_diff + lon_diff * lon_diff)

\* faulty variant: np.argmax in place of np.argmin
ArgMax(ds) ==
    CHOOSE k \in 1..Len(ds) :
        /\ \A j \in 1..Len(ds) : ~RootLess(ds[k], ds[j])
        /\ \A j \in 1..(k - 1) : RootLess(ds[j], ds[k])

\* np.argmin: the first index holding the minimum (1-based here)
ArgMin(ds) ==
    CHOOSE k \in 1..Len(ds) :
        /\ \A j \in 1..Len(ds) : ~RootLess(ds[j], ds[k])
        /\ \A j \in 1..(k - 1) : RootLess(ds[k], ds[j])

\* lines 66-77: the record taken from a non-empty exact_match
ChosenRecord(exact_match, loc) ==
    IF Len(exact_match) > 1
    THEN LET distances ==
                 [k \in 1..Len(exact_match) |-> Distance(exact_match[k], loc)]
         IN  exact_match[ArgMin(distances)]
    ELSE exact_match[1]

\* whether every row of the frame has the column
HasColumn(rows, column) == \A k \in 1..Len(rows) : column \in DOMAIN rows[k]

\* lines 53-90, the body of the loop for one season whose load gave `out`:
\* whether the inner except caught something, and the points appended.
\* season_data['State'] raises KeyError on a frame without that column.
ProcessSeason(loc, season, out) ==
    IF out.raises THEN [raised |-> TRUE, points |-> <<>>]
    ELSE IF out.rows = <<>> THEN [raised |-> FALSE, points |-> <<>>]
    ELSE IF ~(HasColumn(out.rows, "State") /\ HasColumn(out.rows, "County"))
    THEN [raised |-> TRUE, points |-> <<>>]
    ELSE LET exact_match == ExactMatch(out.rows, loc)
         IN  IF exact_match # <<>>
             THEN LET record == ChosenRecord(exact_match, loc)
                  IN  [raised |-> FALSE,
                       points |-> << [Season |-> season,
                                      Total_Cycles |-> record.Total,
                                      Damaging_Cycles |-> record.Damaging] >>]
             ELSE [raised |-> FALSE, points |-> <<>>]

\* faulty variant: the inner except leaves the loop
OnSeasonExceptionBreak(k, n) == n + 1

\* lines 88-90: the inner except continues with the next season
\* (k: the index of the failing season, n: the number of seasons)
OnSeasonException(k, n) == k + 1

-----------------------------------------------------------------------------
(* calculate_statistics: lines 92-134, from the gathered points to the result *)

WindowYears == 5

RECURSIVE InsertDesc(_, _)
InsertDesc(p, sorted) ==
    IF sorted = <<>> THEN <<p>>
    ELSE IF p.Season > Head(sorted).Season THEN <<p>> \o sorted
    ELSE <<Head(sorted)>> \o InsertDesc(p, Tail(sorted))

RECURSIVE SortRec(_)
SortRec(ps) ==
    IF ps = <<>> THEN <<>>
    ELSE InsertDesc(ps[Len(ps)], SortRec(SubSeq(ps, 1, Len(ps) - 1)))

\* faulty variant: the points left in the order gathered
Unsorted(ps) == ps

\* line 99: sort_values('Season', ascending=False)
SortDesc(ps) == SortRec(ps)

\* faulty variant: values[-5:], the five oldest
RecentTail(xs) ==
    IF Len(xs) >= WindowYears
    THEN SubSeq(xs, Len(xs) - WindowYears + 1, Len(xs))
    ELSE xs

\* lines 117-118: values[:5] if len(values) >= 5 else values
Recent(xs) == IF Len(xs) >= WindowYears THEN SubSeq(xs, 1, WindowYears) ELSE xs

\* lines 106-107
AllAvg(xs) == IF Len(xs) > 0 THEN NpMean(xs) ELSE Rat(0, 1)

\* lines 113-114
RecentAvg(xs) ==
    IF Len(xs) >= WindowYears THEN NpMean(SubSeq(xs, 1, WindowYears))
    ELSE IF Len(xs) > 0 THEN NpMean(xs) ELSE Rat(0, 1)

\* faulty variant: without the test of the mean
CovOfUnguarded(xs) ==
    IF Len(xs) > 1
    THEN RootTimes(RootOver(NpStd(xs), NpMean(xs)), 100)
    ELSE Zero

\* lines 109-110 and 120-121
CovOf(xs) ==
    IF Len(xs) > 1 /\ NpMean(xs).num > 0
    THEN RootTimes(RootOver(NpStd(xs), NpMean(xs)), 100)
    ELSE Zero

\* lines 97-134
Statistics(stats) ==
    LET stats_df == SortDesc(stats)
        total_cycles == [k \in 1..Len(stats_df) |-> stats_df[k].Total_Cycles]
        damaging_cycles ==
            [k \in 1..Len(stats_df) |-> stats_df[k].Damaging_Cycles]
    IN  [data |-> stats_df,
         total_all_avg |-> AllAvg(total_cycles),
         damaging_all_avg |-> AllAvg(damaging_cycles),
         total_all_cov |-> CovOf(total_cycles),
         damaging_all_cov |-> CovOf(damaging_cycles),
         total_5yr_avg |-> RecentAvg(total_cycles),
         damaging_5yr_avg |-> RecentAvg(damaging_cycles),
         total_5yr_cov |-> CovOf(Recent(total_cycles)),
         damaging_5yr_cov |-> CovOf(Recent(damaging_cycles)),
         years_available |-> Len(total_cycles)]

\* faulty variant: without the test of line 94
ComputeResultUnchecked(stats) == Statistics(stats)

\* lines 94-134
ComputeResult(stats) == IF stats = <<>> THEN None ELSE Statistics(stats)

\* lines 52-90 as a whole: the points gathered from season k on, after acc
RECURSIVE GatherFrom(_, _, _, _, _)
GatherFrom(loc, seasons, prov, k, acc) ==
    IF k > Len(seasons) THEN acc
    ELSE LET done == ProcessSeason(loc, seasons[k], prov[seasons[k]])
         IN  GatherFrom(loc, seasons, prov,
                        IF done.raised
                        THEN OnSeasonException(k, Len(seasons))
                        ELSE k + 1,
                        acc \o done.points)

\* lines 43-137: the value calculate_statistics returns
calculate_statistics(loc, seasons, prov) ==
    IF ~WellFormed(loc) THEN None
    ELSE ComputeResult(GatherFrom(loc, seasons, prov, 1, <<>>))

-----------------------------------------------------------------------------
(* get_variability_category, lines 139-146 (the band, without the icon) *)

\* cov < k and cov <= k for an integer k >= 0
\* (both false of the not-a-number)
CovLess(c, k) == c # NaN /\ c.n < k * k * c.d
CovAtMost(c, k) == c # NaN /\ c.n <= k * k * c.d

\* faulty variant: cov < 40 in place of cov <= 40
get_variability_category_strict(c) ==
    IF CovLess(c, 15) THEN "Low"
    ELSE IF CovLess(c, 40) THEN "Moderate"
    ELSE "High"

get_variability_category(c) ==
    IF CovLess(c, 15) THEN "Low"
    ELSE IF CovAtMost(c, 40) THEN "Moderate"
    ELSE "High"

\* the COV t/10, for t in tenths of a percent
Tenths(t) == Root(t * t, 100)

-----------------------------------------------------------------------------
(* The inputs *)

Range(f) == {f[k] : k \in DOMAIN f}

\* the lists of at most n distinct elements of S
DistinctSeqs(S, n) ==
    {s \in UNION {[1..k -> S] : k \in 0..n} :
        \A a, b \in DOMAIN s : a # b => s[a] # s[b]}

\* spellings of one state and one county, and another state
StateCo == <<"c", "o", " ">>
StateCoRow == <<" ", "C", "o">>
StateWy == <<"W", "Y">>
CountyAb == <<"A", "b">>
CountyAbRow == <<"a", "B", " ">>

Row(st, county, lat, lon, total, damaging) ==
    [State |-> st, County |-> county, Latitude |-> lat, Longitude |-> lon,
     Total |-> total, Damaging |-> damaging]

Frame(rows) == [raises |-> FALSE, rows |-> rows]
LoadRaises == [raises |-> TRUE, rows |-> <<>>]
\* a frame whose sheet has no State and County columns
NoStateColumn ==
    Frame(<< [Latitude |-> 0, Longitude |-> 0, Total |-> 50, Damaging |-> 10] >>)

Target == [State |-> StateCo, County |-> CountyAb,
           Latitude |-> 0, Longitude |-> 0]
\* a location_data without its coordinates
NoCoordinates == [State |-> StateCo, County |-> CountyAb]

MainRows ==
    {Row(st, CountyAbRow, 0, 0, p[1], p[2]) :
        st \in {StateCoRow, StateWy}, p \in {<<50, 10>>, <<60, 12>>}}

MainOutcomes ==
    {LoadRaises, Frame(<<>>), NoStateColumn}
        \cup {Frame(<<r>>) : r \in MainRows}

WindowOutcomes ==
    {Frame(<<>>)} \cup
    {Frame(<<Row(StateCoRow, CountyAbRow, 0, 0, p[1], p[2])>>) :
        p \in {<<0, 0>>, <<3, 1>>}}

MatchRows ==
    {Row(st, CountyAbRow, c[1], c[2], p[1], p[2]) :
        st \in {StateCoRow, StateWy},
        c \in {<<0, 0>>, <<-1, 0>>, <<0, 1>>, <<2, 2>>},
        p \in {<<50, 10>>, <<60, 12>>}}

MatchOutcomes ==
    {Frame(rows) : rows \in UNION {[1..k -> MatchRows] : k \in 0..MaxRows}}

\* the seasons 1..n ascending, descending, and odd ones before even ones
Ascending(n) == [k \in 1..n |-> k]
Descending(n) == [k \in 1..n |-> n + 1 - k]
OddsFirst(n) ==
    LET odds == (n + 1) \div 2
    IN  [k \in 1..n |-> IF k <= odds THEN 2 * k - 1 ELSE 2 * (k - odds)]

\* no search of main is under way
NoSearch ==
    /\ search_data = <<>>
    /\ state = <<>>
    /\ coordinates = [latitude |-> 0, longitude |-> 0]
    /\ state_data = <<>>

InitRun(loc, seasons, prov) ==
    /\ location_data = loc
    /\ available_seasons = seasons
    /\ provider = prov
    /\ pc = "begin"
    /\ i = 1
    /\ location_stats = <<>>
    /\ result = NotReturned
    /\ st_error = FALSE
    /\ cov = Zero
    /\ category = "none"
    /\ NoSearch

\* any order of any seasons, each season loading in any of the ways
Init ==
    \E loc \in {Target, NoCoordinates} :
    \E seasons \in DistinctSeqs(1..MaxSeasons, MaxSeasons) :
    \E prov \in [Range(seasons) -> MainOutcomes] :
        InitRun(loc, seasons, prov)

\* many seasons, each with no record or one record of the location
InitWindow ==
    \E n \in 0..MaxWindowSeasons :
    \E seasons \in {Ascending(n), Descending(n), OddsFirst(n)} :
    \E prov \in [1..n -> WindowOutcomes] :
        InitRun(Target, seasons, prov)

\* one season, any records, the target at (0, 0) or at (1, 1)
InitMatch ==
    \E loc \in {Target, [Target EXCEPT !.Latitude = 1, !.Longitude = 1]} :
    \E prov \in [{1} -> MatchOutcomes] :
        InitRun(loc, <<1>>, prov)

InitCategory ==
    /\ location_data = Target
    /\ available_seasons = <<>>
    /\ provider = <<>>
    /\ pc = "classify"
    /\ i = 1
    /\ location_stats = <<>>
    /\ result = NotReturned
    /\ st_error = FALSE
    /\ cov \in {Tenths(t) : t \in 0..MaxCovTenths}
    /\ category = "none"
    /\ NoSearch

-----------------------------------------------------------------------------
(* The steps *)

\* lines 45-50, and 135-137 when a key of location_data is missing
Begin ==
    /\ pc = "begin"
    /\ IF WellFormed(location_data)
       THEN /\ pc' = "loop"
            /\ UNCHANGED <<result, st_error>>
       ELSE /\ pc' = "done"
            /\ result' = None
            /\ st_error' = TRUE
    /\ UNCHANGED <<location_data, available_seasons, provider, i,
                   location_stats, cov, category, search>>

\* lines 52-90: one iteration of the for loop
SeasonIteration ==
    /\ pc = "loop"
    /\ i <= Len(available_seasons)
    /\ LET season == available_seasons[i]
           done == ProcessSeason(location_data, season, provider[season])
       IN  /\ location_stats' = location_stats \o done.points
           /\ i' = IF done.raised
                   THEN OnSeasonException(i, Len(available_seasons))
                   ELSE i + 1
    /\ UNCHANGED <<location_data, available_seasons, provider, pc, result,
                   st_error, cov, category, search>>

\* lines 92-134: after the loop
Aggregate ==
    /\ pc = "loop"
    /\ i > Len(available_seasons)
    /\ result' = ComputeResult(location_stats)
    /\ pc' = "done"
    /\ UNCHANGED <<location_data, available_seasons, provider, i,
                   location_stats, st_error, cov, category, search>>

\* lines 139-146
Classify ==
    /\ pc = "classify"
    /\ category' = get_variability_category(cov)
    /\ pc' = "classified"
    /\ UNCHANGED <<location_data, available_seasons, provider, i,
                   location_stats, result, st_error, cov, search>>

Next == Begin \/ SeasonIteration \/ Aggregate

Spec == Init /\ [][Next]_vars
SpecWindow == InitWindow /\ [][Next]_vars
SpecMatch == InitMatch /\ [][Next]_vars
SpecCategory == InitCategory /\ [][Classify]_vars

-----------------------------------------------------------------------------
(* main: the search, lines 234-304 *)

Kansas == <<"K", "a", "n", "s", "a", "s">>
KansasRow == <<"K", "A", "N", "S", "A", "S", " ">>
Arkansas == <<"A", "r", "k", "a", "n", "s", "a", "s">>

SearchRows ==
    {Row(st, CountyAbRow, lat, 0, 50, 10) :
        st \in {Kansas, KansasRow, Arkansas, StateWy}, lat \in {0, 1}}

\* a season's records, not empty (lines 180-182)
SearchFrames == UNION {[1..k -> SearchRows] : k \in 1..MaxSearchRows}

\* lines 28-41: the stripped, non-blank State values of the season
get_states_for_season(rows) ==
    {Strip(rows[k].State) : k \in 1..Len(rows)} \ {<<>>}

\* Series.str.contains(pat, case=False) for a pattern of letters: pat occurs
\* somewhere in s, letter case aside
StrContains(s, pat) ==
    \E k \in 0..(Len(s) - Len(pat)) :
        Upper(SubSeq(s, k + 1, k + Len(pat))) = Upper(pat)

\* line 254
FilterByState(rows, st) ==
    SelectSeq(rows, LAMBDA r : StrContains(r.State, st))

\* coordinate_matcher.find_nearest_location: one of the candidates, or None
\* when none is within the radius
find_nearest_location(coords, candidates) == Range(candidates) \cup {None}

CoordinatesGiven(coords) == {"latitude", "longitude"} \subseteq DOMAIN coords

\* a season's records, a state of the selectbox (lines 188, 206-211), and
\* the number inputs filled in or left empty (lines 214-231)
InitMain ==
    /\ search_data \in SearchFrames
    /\ state \in get_states_for_season(search_data)
    /\ coordinates \in {[latitude |-> 0, longitude |-> 0],
                        [latitude |-> 1, longitude |-> 0],
                        [longitude |-> 0]}
    /\ state_data = <<>>
    /\ pc = "search"
    /\ location_data = None
    /\ available_seasons = <<>>
    /\ provider = <<>>
    /\ i = 1
    /\ location_stats = <<>>
    /\ result = NotReturned
    /\ st_error = FALSE
    /\ cov = Zero
    /\ category = "none"

\* lines 234-263: the button is pressed; inputs validated, the season's
\* records filtered by state
Search ==
    /\ pc = "search"
    /\ IF state = <<>> \/ ~CoordinatesGiven(coordinates) \/ search_data = <<>>
       THEN /\ pc' = "stopped"
            /\ state_data' = state_data
       ELSE /\ state_data' = FilterByState(search_data, state)
            /\ pc' = IF state_data' = <<>> THEN "stopped" ELSE "resolve"
    /\ UNCHANGED <<location_data, available_seasons, provider, i,
                   location_stats, result, st_error, cov, category,
                   search_data, state, coordinates>>

\* lines 265-304: the nearest station, which is then the location_data of
\* calculate_statistics
Resolve ==
    /\ pc = "resolve"
    /\ \E nearest_location \in find_nearest_location(coordinates, state_data) :
           IF nearest_location = None
           THEN pc' = "no_station" /\ location_data' = location_data
           ELSE pc' = "resolved" /\ location_data' = nearest_location
    /\ UNCHANGED <<available_seasons, provider, i, location_stats, result,
                   st_error, cov, category, search>>

NextMain == Search \/ Resolve

SpecMain == InitMain /\ [][NextMain]_vars

-----------------------------------------------------------------------------
(* What the properties speak of, read off the inputs *)

Returned == pc = "done"

NormKey(x) == <<Upper(Strip(x.State)), Upper(Strip(x.County))>>

\* the records of season s that carry the target's normalized (state, county)
Matching(s) ==
    LET rows == provider[s].rows
    IN  {k \in 1..Len(rows) :
            /\ {"State", "County"} \subseteq DOMAIN rows[k]
            /\ NormKey(rows[k]) = NormKey(location_data)}

\* the load of season s raises, or its iteration raises on a missing column
SeasonFails(s) ==
    \/ provider[s].raises
    \/ \E k \in 1..Len(provider[s].rows) :
           ~({"State", "County"} \subseteq DOMAIN provider[s].rows[k])

\* the seasons of the input that load and hold a matching record
MatchedSeasons ==
    {s \in Range(available_seasons) : ~SeasonFails(s) /\ Matching(s) # {}}

SeasonsOf(points) == {points[k].Season : k \in 1..Len(points)}

-----------------------------------------------------------------------------
\* C1: a season whose load or iteration raises does not abort the
\* aggregation: the result is the one calculate_statistics gives for the
\* input without the failing seasons, and every season that loads and has a
\* matching record has its point in the result.
C1_FailureIsolated ==
    Returned =>
        /\ result = calculate_statistics(
                        location_data,
                        SelectSeq(available_seasons, LAMBDA s : ~SeasonFails(s)),
                        provider)
        /\ WellFormed(location_data) =>
               \A s \in MatchedSeasons :
                   result # None /\ s \in SeasonsOf(result.data)

\* a season failed and a season after it in the input still gave its point
C1_Witness ==
    /\ Returned
    /\ result # None
    /\ \E a, b \in DOMAIN available_seasons :
           /\ a < b
           /\ SeasonFails(available_seasons[a])
           /\ available_seasons[b] \in SeasonsOf(result.data)

\* C2: years_available is the number of seasons holding at least one record
\* with the target's normalized (state, county); a season with no records or
\* no matching record is skipped and contributes nothing.
C2_YearsAvailable ==
    Returned =>
        /\ result # None =>
               /\ result.years_available = Cardinality(MatchedSeasons)
               /\ SeasonsOf(result.data) = MatchedSeasons
        /\ WellFormed(location_data) /\ MatchedSeasons # {} => result # None

\* seasons [3, 2, 1] with matches only in 2 and 1
C2_Witness ==
    /\ Returned
    /\ available_seasons = <<3, 2, 1>>
    /\ ~SeasonFails(3) /\ provider[3].rows # <<>> /\ Matching(3) = {}
    /\ MatchedSeasons = {1, 2}
    /\ result # None
    /\ result.years_available = 2

\* C3: when no season of the input yielded a matching record (the list is
\* empty, every load fails, nothing matches), None is returned, with no
\* averages and no COV in it.
C3_NoData ==
    Returned /\ MatchedSeasons = {} =>
        result = None /\ DOMAIN result = {"none"}

\* every season of a non-empty list fails to load
C3_Witness ==
    /\ Returned
    /\ WellFormed(location_data)
    /\ Len(available_seasons) >= 2
    /\ \A s \in Range(available_seasons) : provider[s].raises
    /\ result = None

\* C4: None is returned only when no season matched: never for a malformed
\* location, never when a season yielded a matching record.
C4_Distinguishable ==
    Returned /\ result = None =>
        WellFormed(location_data) /\ MatchedSeasons = {}

-----------------------------------------------------------------------------
(* The series of a returned result, and means and COVs stated directly *)

HasResult == Returned /\ result # None

TotalsOf(points) == [k \in 1..Len(points) |-> points[k].Total_Cycles]
DamagingOf(points) == [k \in 1..Len(points) |-> points[k].Damaging_Cycles]

\* the first min(5, n) points of the returned series
FirstFive(points) ==
    SubSeq(points, 1, IF Len(points) < 5 THEN Len(points) ELSE 5)

\* q is the mean of xs
IsMeanOf(q, xs) == q.den > 0 /\ q.num * Len(xs) = Sum(xs) * q.den

\* c is the COV of xs: 0 for fewer than two values or a zero mean, otherwise
\* 100 * sqrt(mean of squares - square of mean) / mean
IsCovOf(c, xs) ==
    IF Len(xs) < 2 \/ Sum(xs) = 0 THEN c = Zero
    ELSE /\ c.d > 0
         /\ c.n * Sum(xs) * Sum(xs)
                = 10000 * (Len(xs) * SumSq(xs) - Sum(xs) * Sum(xs)) * c.d

\* C5: the returned series is the gathered points sorted descending by
\* season, and the last-5-years averages and COVs are those of its first
\* min(5, n) points: the all-years values when n <= 5, the points of the 5
\* greatest seasons when n > 5.
C5_RecentWindow ==
    HasResult =>
        LET data == result.data
            n == Len(data)
            window == FirstFive(data)
            seasons == SeasonsOf(location_stats)
        IN  /\ n = Len(location_stats)
            /\ Range(data) = Range(location_stats)
            /\ \A k \in 1..(n - 1) : data[k].Season > data[k + 1].Season
            /\ IsMeanOf(result.total_5yr_avg, TotalsOf(window))
            /\ IsMeanOf(result.damaging_5yr_avg, DamagingOf(window))
            /\ IsCovOf(result.total_5yr_cov, TotalsOf(window))
            /\ IsCovOf(result.damaging_5yr_cov, DamagingOf(window))
            /\ n <= 5 =>
                   /\ result.total_5yr_avg = result.total_all_avg
                   /\ result.damaging_5yr_avg = result.damaging_all_avg
                   /\ result.total_5yr_cov = result.total_all_cov
                   /\ result.damaging_5yr_cov = result.damaging_all_cov
            /\ n > 5 =>
                   SeasonsOf(window) =
                       {s \in seasons :
                           Cardinality({t \in seasons : t > s}) < 5}

\* more than 5 points, gathered in another order than returned, and a window
\* that differs from the whole series
C5_Witness ==
    /\ HasResult
    /\ result.years_available > 5
    /\ result.data # location_stats
    /\ result.total_5yr_avg # result.total_all_avg
    /\ result.total_5yr_cov # result.total_all_cov

\* C6: every COV returned is 0 when its window holds fewer than 2 points or
\* has mean 0, and none is the outcome of a division by a zero mean.
C6_CovZero ==
    HasResult =>
        LET data == result.data
            covs == << <<result.total_all_cov, TotalsOf(data)>>,
                       <<result.damaging_all_cov, DamagingOf(data)>>,
                       <<result.total_5yr_cov, TotalsOf(FirstFive(data))>>,
                       <<result.damaging_5yr_cov, DamagingOf(FirstFive(data))>> >>
        IN  \A k \in 1..4 :
                /\ covs[k][1] # NaN
                /\ Len(covs[k][2]) < 2 \/ Sum(covs[k][2]) = 0
                       => covs[k][1] = Zero

\* several points whose total cycles are all 0, with damaging COV 0 too
C6_Witness ==
    /\ HasResult
    /\ result.years_available >= 2
    /\ Sum(TotalsOf(result.data)) = 0
    /\ result.total_all_cov = Zero
    /\ result.total_5yr_cov = Zero

\* a single point: a window of fewer than 2
C6_WitnessSingle ==
    /\ HasResult
    /\ result.years_available = 1
    /\ Sum(TotalsOf(result.data)) > 0
    /\ result.total_all_cov = Zero

-----------------------------------------------------------------------------
(* get_variability_category *)

BandOfTenths(t) ==
    IF t < 150 THEN "Low" ELSE IF t <= 400 THEN "Moderate" ELSE "High"

Rank(band) ==
    CASE band = "Low" -> 1 [] band = "Moderate" -> 2 [] band = "High" -> 3

\* C7: get_variability_category gives exactly one of three bands for every
\* COV: Low below 15, Moderate from 15 to 40 with both ends, High above 40
\* (14.9 Low, 15.0 Moderate, 40.0 Moderate, 40.1 High), and a larger COV never
\* gets a lower band.
C7_Bands ==
    pc = "classified" =>
        /\ category \in {"Low", "Moderate", "High"}
        /\ \A t \in 0..MaxCovTenths :
               cov = Tenths(t) => category = BandOfTenths(t)
        /\ cov = Tenths(149) => category = "Low"
        /\ cov = Tenths(150) => category = "Moderate"
        /\ cov = Tenths(400) => category = "Moderate"
        /\ cov = Tenths(401) => category = "High"
        /\ \A t \in 0..MaxCovTenths :
               RootLess(Tenths(t), cov) =>
                   Rank(get_variability_category(Tenths(t))) <= Rank(category)

\* the upper end of Moderate, 40.0, has been classified
C7_Witness ==
    pc = "classified" /\ cov = Tenths(400) /\ category = "Moderate"

-----------------------------------------------------------------------------
(* The two-season example *)

\* two seasons matched, with total cycles 50 and 60, damaging 10 and 12
TwoSeasonExample ==
    /\ HasResult
    /\ result.years_available = 2
    /\ {<<result.data[k].Total_Cycles, result.data[k].Damaging_Cycles>> :
            k \in 1..2} = {<<50, 10>>, <<60, 12>>}

\* C8 as stated: mean total 55, mean damaging 11, total-cycles COV between
\* 12.8 and 12.9 percent, classified Low.
C8_SampleCov ==
    TwoSeasonExample =>
        /\ result.total_all_avg = Rat(55, 1)
        /\ result.damaging_all_avg = Rat(11, 1)
        /\ RootLess(Tenths(128), result.total_all_cov)
        /\ RootLess(result.total_all_cov, Tenths(129))
        /\ get_variability_category(result.total_all_cov) = "Low"

\* C8 as amended: mean total 55, mean damaging 11, total-cycles COV 100/11,
\* between 9.0 and 9.1 percent (np.std is the population standard
\* deviation: 5 for [50, 60]), classified Low.
C8_PopulationCov ==
    TwoSeasonExample =>
        /\ result.total_all_avg = Rat(55, 1)
        /\ result.damaging_all_avg = Rat(11, 1)
        /\ result.total_all_cov = Root(10000, 121)
        /\ RootLess(Tenths(90), result.total_all_cov)
        /\ RootLess(result.total_all_cov, Tenths(91))
        /\ get_variability_category(result.total_all_cov) = "Low"

C8_Witness ==
    /\ TwoSeasonExample
    /\ Len(available_seasons) = 2
    /\ get_variability_category(result.total_all_cov) = "Low"

-----------------------------------------------------------------------------
(* Several matching records in one season *)

\* the square of the distance, in degrees, of a record to the target
Dist2(r) ==
    (r.Latitude - location_data.Latitude) * (r.Latitude - location_data.Latitude)
    + (r.Longitude - location_data.Longitude)
          * (r.Longitude - location_data.Longitude)

\* C9: a season with matching records gives exactly one point, that of a
\* matching record than which no matching record is closer to the target.
C9_Closest ==
    Returned =>
        \A s \in Range(available_seasons) :
            Matching(s) # {} =>
                LET rows == provider[s].rows
                    points == {k \in 1..Len(location_stats) :
                                  location_stats[k].Season = s}
                IN  /\ Cardinality(points) = 1
                    /\ \A k \in points :
                           \E m \in Matching(s) :
                               /\ rows[m].Total = location_stats[k].Total_Cycles
                               /\ rows[m].Damaging
                                      = location_stats[k].Damaging_Cycles
                               /\ \A j \in Matching(s) :
                                      Dist2(rows[m]) <= Dist2(rows[j])

\* two matching records, the second one strictly closer and with other
\* counts: the point of the season is the second one's
C9_Witness ==
    /\ Returned
    /\ Len(provider[1].rows) >= 2
    /\ {1, 2} \subseteq Matching(1)
    /\ Dist2(provider[1].rows[2]) < Dist2(provider[1].rows[1])
    /\ provider[1].rows[2].Total # provider[1].rows[1].Total
    /\ Len(location_stats) = 1
    /\ location_stats[1].Total_Cycles = provider[1].rows[2].Total

-----------------------------------------------------------------------------
(* The order of the seasons *)

Permutations(seq) ==
    {p \in [1..Len(seq) -> Range(seq)] : Range(p) = Range(seq)}

\* C10: the value returned is the same for every order of the same seasons
\* over the same provider data.
C10_OrderIndependent ==
    Returned =>
        \A p \in Permutations(available_seasons) :
            calculate_statistics(location_data, p, provider) = result

\* several points, gathered in another order than the one returned
C10_Witness ==
    /\ HasResult
    /\ result.years_available >= 2
    /\ result.data # location_stats
    /\ result.total_all_cov # Zero

-----------------------------------------------------------------------------
(* The candidates of main's search *)

\* the two names are equal, letter case and surrounding blanks aside
SameState(a, b) == Upper(Strip(a)) = Upper(Strip(b))

\* C11: every record handed to find_nearest_location has the selected
\* state as its State (letter case aside), and so has the station resolved
\* and passed on to calculate_statistics.
C11_CandidatesInState ==
    /\ pc \in {"resolve", "resolved", "no_station"} =>
           \A k \in 1..Len(state_data) :
               SameState(state_data[k].State, state)
    /\ pc = "resolved" => SameState(location_data.State, state)

====
